---- MODULE Spec2Model ----
(***************************************************************************)
(* Model of the PillReminder application: the App component (medicine      *)
(* collection, adherence log, add-medicine form, tabs), the MedicineCard   *)
(* classifier with its local taken list, and the NotificationAlert engine  *)
(* (due notifications, dismissed list, sound flag, played list).           *)
(*                                                                         *)
(* Time is counted in whole minutes since 00:00 of day 0 of the session.   *)
(* A time of day "HH:MM" is the pair <<HH, MM>>; a notification id         *)
(* `${medicine.id}-${time}` is the pair <<medicine.id, time>>.             *)
(* Display-only fields (name, dosage, colour, notes, start and end date,   *)
(* takenAt) take no part in any decision of the code and are left out.     *)
(* dismissedNotifications and hasPlayedSound are arrays the code only ever *)
(* appends to and reads through includes(); they are kept as the sets of   *)
(* their elements.                                                         *)
(*                                                                         *)
(* The two localStorage records are written by the save effects of App;    *)
(* the effects are part of the operation that changed the collection.      *)
(*                                                                         *)
(* Spec is a session that starts empty shortly before 08:00 and adds its   *)
(* medicines through the form.  CoreSpec opens the application on a stored *)
(* collection at chosen times of day (morning, evening, around midnight)   *)
(* and examines getUpcomingMedicines, the card classifier and the take     *)
(* handler there.                                                          *)
(* StartupSpec is the mount sequence of App on a store that holds valid,   *)
(* unparsable or wrongly shaped records.  FormSpec is the editing of the   *)
(* add-medicine form (frequency selections, time edits, submits) together  *)
(* with deletes and page reloads.  DaySpec is a session on one medicine    *)
(* that runs minute by minute into the next day, with audio that works or  *)
(* is denied by the platform.                                              *)
(***************************************************************************)
EXTENDS Integers, Sequences, FiniteSets, TLC

\* ---------------------------------------------------------------- bounds
\* number of medicines the form may submit in one session
MaxAdds == 1
\* number of clock minutes the session runs for
MaxTicks == 2
\* number of take actions in one session
MaxTakes == 1

\* wall clock at the start of the session (07:59 of day 0)
StartMinute == 479
\* the times of day the user types into the form
SlotTimes == { <<7, 55>>, <<8, 5>> }
\* the frequency and times the user fills the form with before submitting it
FormInputs ==
    { [ frequency |-> "twice-daily", times |-> << <<7, 55>>, <<8, 5>> >> ],
      [ frequency |-> "as-needed", times |-> << << >> >> ] }

\* the tabs of the bottom navigation the user visits
VisitedTabs == { "home", "upcoming" }

\* the stored collections the application is opened with when the projector
\* and the card classifier are examined: medicine ids are given in order of
\* insertion, times are in the order the user typed them
CoreMedicineLists ==
    { << >>,
      << [ id |-> 1, frequency |-> "twice-daily", times |-> << <<8, 0>>, <<20, 0>> >> ] >>,
      << [ id |-> 1, frequency |-> "twice-daily", times |-> << <<8, 0>>, <<20, 0>> >> ],
         [ id |-> 2, frequency |-> "twice-daily", times |-> << <<8, 0>>, <<20, 0>> >> ] >>,
      << [ id |-> 1, frequency |-> "twice-daily", times |-> << <<20, 0>>, <<8, 0>> >> ],
         [ id |-> 2, frequency |-> "once-daily", times |-> << <<8, 0>> >> ] >>,
      << [ id |-> 1, frequency |-> "twice-daily", times |-> << <<23, 55>>, <<0, 5>> >> ] >>,
      << [ id |-> 1, frequency |-> "as-needed", times |-> << <<8, 0>> >> ],
         [ id |-> 2, frequency |-> "once-daily", times |-> << <<8, 0>> >> ] >>,
      << [ id |-> 1, frequency |-> "as-needed", times |-> << >> ] >> }
\* the wall clock at which it is opened: 07:00, 07:50, 08:03, 08:15, 08:16, 08:20
\* and 23:55 of day 0, 00:05 of day 1
CoreNows == { 420, 470, 483, 495, 496, 500, 1435, 1445 }
\* the times of day of the take actions
CoreSlotTimes == { <<8, 0>>, <<20, 0>>, <<23, 55>>, <<0, 5>> }
\* the medicine ids a take action is called with; 3 is never in the collection
CoreIds == { 1, 2, 3 }

\* the frequencies the user selects in the form when its editing is examined
FormFrequencies ==
    { "once-daily", "twice-daily", "three-times-daily", "four-times-daily", "as-needed" }
\* what the user leaves in a time input there: a time, or nothing (<< >>)
FormTimes == { <<8, 0>>, << >> }

\* the session that runs into the next day: from 07:58 of day 0 ..
DayStart == 478
\* .. to 08:02 of day 1 ..
DayLast == DayStart + 1444
\* .. on one medicine taken once a day at 08:00
DayMedicines == << [ id |-> 1, frequency |-> "once-daily", times |-> << <<8, 0>> >> ] >>

\* the wall clock at which the application is started when its mount sequence
\* is examined (08:03 of day 0)
StartupNow == 483
\* what localStorage holds under 'pillreminder-medicines' at that start
StoredMedicineRecords ==
    { [ kind |-> "absent", items |-> << >> ],
      [ kind |-> "invalid", items |-> << >> ],
      [ kind |-> "other", items |-> << >> ] }
    \cup { [ kind |-> "array",
             items |-> [ i \in 1..Len(meds) |->
                           << meds[i].id, meds[i].frequency, meds[i].times >> ] ] :
           meds \in CoreMedicineLists }
\* what it holds under 'pillreminder-log': the last one is a take of medicine 1
\* at 08:00 on day 0
StoredLogRecords ==
    { [ kind |-> "absent", items |-> << >> ],
      [ kind |-> "invalid", items |-> << >> ],
      [ kind |-> "other", items |-> << >> ],
      [ kind |-> "array", items |-> << >> ],
      [ kind |-> "array", items |-> << << 1, <<8, 0>>, 0 >> >> ] }

\* ------------------------------------------------------ program constants
MinutesPerDay == 1440
NotifyWindow == 5
DueWindow == 15
UpcomingLimit == 3

VARIABLES
    now,                     \* the wall clock, in minutes
    medicines,               \* App: useState<Medicine[]>
    medicineLog,             \* App: useState<MedicineLog[]>
    showForm,                \* App: useState(false)
    activeTab,               \* App: useState('home')
    isMobile,                \* App: useState(false), set by checkMobile; the session runs on a phone
    nextId,                  \* the next value Date.now() gives the form
    takenTimes,              \* MedicineCard: useState<string[]> of each mounted card
    dueNotifications,        \* NotificationAlert: useState<DueNotification[]>
    dismissedNotifications,  \* NotificationAlert: useState<string[]>
    soundEnabled,            \* NotificationAlert: useState(true)
    hasPlayedSound,          \* NotificationAlert: useState<string[]>
    effectPending,           \* the NotificationAlert effect is scheduled to run
    tickDue,                 \* the minute changed and the interval has not fired since
    alarmCalls,              \* the playAlarmSound calls made by the last step
    lastDismissed,           \* history: << id, date >> of the latest dismiss or take from a notification
    storedMedicines,         \* localStorage record 'pillreminder-medicines'
    storedLog,               \* localStorage record 'pillreminder-log'
    lastTake,                \* history: << medicineId, time >> of the latest call of App.handleTakeMedicine
    audioWorks,              \* the platform lets the Web Audio calls of SoundManager succeed
    intervals,               \* the number of setInterval timers of NotificationAlert not yet cleared
    startup,                 \* App: where the mount sequence stands, and what its load effect has queued
    formData                 \* MedicineForm: formData.frequency and the times list

vars == << now, medicines, medicineLog, showForm, activeTab, isMobile, nextId,
           takenTimes, dueNotifications, dismissedNotifications, soundEnabled,
           hasPlayedSound, effectPending, tickDue, alarmCalls,
           lastDismissed, storedMedicines, storedLog, lastTake,
           audioWorks, intervals, startup, formData >>

\* ------------------------------------------------------------- helpers
Range(s) == { s[i] : i \in DOMAIN s }

Abs(x) == IF x < 0 THEN -x ELSE x

\* now.getHours() * 60 + now.getMinutes()
CurrentMinutes(t) == t % MinutesPerDay

\* new Date().toISOString().split('T')[0], as a day number
DateOf(t) == t \div MinutesPerDay

\* new Date().toTimeString().slice(0, 5)
CurrentTimeString(t) == << CurrentMinutes(t) \div 60, CurrentMinutes(t) % 60 >>

\* const [hours, minutes] = time.split(':').map(Number); hours * 60 + minutes
MedicineMinutes(time) == time[1] * 60 + time[2]

\* medicineTime = new Date(); medicineTime.setHours(hours, minutes, 0, 0)
MedicineTime(time, t) == DateOf(t) * MinutesPerDay + MedicineMinutes(time)

\* frequencyOptions[..].times
SlotCount(frequency) ==
    CASE frequency = "once-daily" -> 1
      [] frequency = "twice-daily" -> 2
      [] frequency = "three-times-daily" -> 3
      [] frequency = "four-times-daily" -> 4
      [] OTHER -> 0

\* `${medicine.id}-${time}`
NotificationId(medicine, time) == << medicine.id, time >>

RECURSIVE Flatten(_)
Flatten(ss) == IF ss = << >> THEN << >> ELSE Head(ss) \o Flatten(Tail(ss))

\* ------------------------------------------------- App: pure functions
\* a look-up that takes any medicine of the collection
FindMedicine_Any(meds, medicineId) == DOMAIN meds

\* medicines.find(med => med.id === medicineId)
FindMedicine(meds, medicineId) ==
    { i \in DOMAIN meds : meds[i].id = medicineId }

\* handleTakeMedicine that finds the medicine and drops the entry
AppTakeMedicine_NoAppend(log, meds, medicineId, time, t) == log

\* App.handleTakeMedicine: the log after a take action
AppTakeMedicine(log, meds, medicineId, time, t) ==
    IF FindMedicine(meds, medicineId) # {}
    THEN Append(log, [ medicineId |-> medicineId, time |-> time, date |-> DateOf(t) ])
    ELSE log

\* onDismiss wired to the take handler
AppDismissNotification_RecordsTake(log, medicineId, time, t) ==
    Append(log, [ medicineId |-> medicineId, time |-> time, date |-> DateOf(t) ])

\* App.handleDismissNotification: console.log only, the log is returned as it is
AppDismissNotification(log, medicineId, time, t) == log

\* a delete that also drops the log entries of the medicine
LogAfterDelete_Cascade(log, id) == SelectSeq(log, LAMBDA e : e.medicineId # id)

\* App.handleDeleteMedicine calls setMedicines only: the log is returned as it is
LogAfterDelete(log, id) == log

\* App.handleDeleteMedicine: prev.filter(med => med.id !== id)
DeleteFrom(meds, id) == SelectSeq(meds, LAMBDA med : med.id # id)

\* A localStorage record is the text of a JSON array ("array", with the items
\* written in it), a text JSON.parse throws on ("invalid"), the text of a JSON
\* value that is not an array, such as {} or null ("other"), or no record at
\* all: getItem gives null ("absent").
StoredText(kind, items) == [ kind |-> kind, items |-> items ]

\* JSON.stringify(medicines): each medicine written as the list of its fields
StringifyMedicines(meds) ==
    StoredText("array",
        IF meds = << >> THEN << >>
        ELSE [ i \in 1..Len(meds) |-> << meds[i].id, meds[i].frequency, meds[i].times >> ])

\* JSON.parse of a medicines record that holds an array
ParseMedicines(text) ==
    IF text.items = << >> THEN << >>
    ELSE [ i \in 1..Len(text.items) |->
             [ id |-> text.items[i][1], frequency |-> text.items[i][2],
               times |-> text.items[i][3] ] ]

\* JSON.stringify(medicineLog)
StringifyLog(log) ==
    StoredText("array",
        IF log = << >> THEN << >>
        ELSE [ i \in 1..Len(log) |-> << log[i].medicineId, log[i].time, log[i].date >> ])

\* JSON.parse of a log record that holds an array
ParseLog(text) ==
    IF text.items = << >> THEN << >>
    ELSE [ i \in 1..Len(text.items) |->
             [ medicineId |-> text.items[i][1], time |-> text.items[i][2],
               date |-> text.items[i][3] ] ]

\* what a set-state call of the load effect has queued: nothing, an array, or a
\* value that is not an array
NotSet == [ set |-> FALSE, kind |-> "none", value |-> << >> ]

\* the load effect on one record: if (saved) { try { set(JSON.parse(saved)) } catch {..} };
\* parsed is what JSON.parse gives for a text that holds an array
LoadRecord(text, parsed) ==
    CASE text.kind = "absent"  -> NotSet
      [] text.kind = "invalid" -> NotSet
      [] text.kind = "other"   -> [ set |-> TRUE, kind |-> "other", value |-> << >> ]
      [] OTHER                 -> [ set |-> TRUE, kind |-> "array", value |-> parsed ]

\* the collection App holds after the queued set-state call is applied
AfterSet(current, queued) == IF queued.set THEN queued.value ELSE current

\* the render of App iterates both collections (for..of, filter, map): it throws
\* when one of them is not an array
RenderThrows(queuedMedicines, queuedLog) ==
    queuedMedicines.kind = "other" \/ queuedLog.kind = "other"

\* the mount sequence of App is over and nothing is queued
Running(beforeMedicines, beforeLog) ==
    [ phase |-> "running", medicines |-> NotSet, log |-> NotSet,
      beforeMedicines |-> beforeMedicines, beforeLog |-> beforeLog ]

\* a save effect that writes only when the collection has grown
SaveMedicines_OnGrowth(stored, prev, next) ==
    IF Len(next) > Len(prev) THEN StringifyMedicines(next) ELSE stored

\* useEffect(() => localStorage.setItem(.., JSON.stringify(medicines)), [medicines])
SaveMedicines(stored, prev, next) ==
    IF next # prev THEN StringifyMedicines(next) ELSE stored

\* useEffect(() => localStorage.setItem(.., JSON.stringify(medicineLog)), [medicineLog])
SaveLog(stored, prev, next) ==
    IF next # prev THEN StringifyLog(next) ELSE stored

\* the MedicineCards are rendered: not behind the form, and on a phone only on the home tab
CardsMounted(form, mobile, tab) == ~form /\ (~mobile \/ tab = "home")

\* every card of a freshly mounted list starts with useState<string[]>([])
FreshCards(meds) == [ id \in { meds[i].id : i \in DOMAIN meds } |-> << >> ]

\* the card state after a render of App that keeps the mounted cards mounted
KeepCards(cards, meds) ==
    [ id \in { meds[i].id : i \in DOMAIN meds } |->
        IF id \in DOMAIN cards THEN cards[id] ELSE << >> ]

\* --------------------------------------- App: getUpcomingMedicines
\* the slot test that also takes the slot of the current minute
IsUpcoming_Inclusive(medicineMinutes, currentMinutes) ==
    medicineMinutes >= currentMinutes

\* if (medicineMinutes > currentMinutes)
IsUpcoming(medicineMinutes, currentMinutes) == medicineMinutes > currentMinutes

\* the inner loop over medicine.times, after the as-needed `continue`
UpcomingOfMedicine(medicine, t) ==
    LET one(time) ==
            IF IsUpcoming(MedicineMinutes(time), CurrentMinutes(t))
            THEN << [ medicine |-> medicine, time |-> time,
                      minutesUntil |-> MedicineMinutes(time) - CurrentMinutes(t) ] >>
            ELSE << >>
    IN  IF medicine.frequency = "as-needed" THEN << >>
        ELSE Flatten([ i \in DOMAIN medicine.times |-> one(medicine.times[i]) ])

\* the array `upcoming` after the loop over medicines
CollectUpcoming(meds, t) ==
    Flatten([ i \in DOMAIN meds |-> UpcomingOfMedicine(meds[i], t) ])

\* a comparator under which an element moves in front of its equals
KeepsOrder_Strict(a, b) == a.minutesUntil - b.minutesUntil < 0

\* (a, b) => a.minutesUntil - b.minutesUntil is not positive: a stays in front of b
KeepsOrder(a, b) == a.minutesUntil - b.minutesUntil <= 0

\* Array.prototype.sort is stable: an element is placed behind its equals
RECURSIVE InsertSorted(_, _)
InsertSorted(e, sorted) ==
    IF sorted = << >> THEN << e >>
    ELSE IF KeepsOrder(Head(sorted), e)
         THEN << Head(sorted) >> \o InsertSorted(e, Tail(sorted))
         ELSE << e >> \o sorted

\* upcoming.sort((a, b) => a.minutesUntil - b.minutesUntil)
RECURSIVE SortByMinutesUntil(_)
SortByMinutesUntil(seq) ==
    IF seq = << >> THEN << >>
    ELSE InsertSorted(seq[Len(seq)], SortByMinutesUntil(SubSeq(seq, 1, Len(seq) - 1)))

\* .slice(0, n)
SliceFromStart(seq, n) == SubSeq(seq, 1, IF Len(seq) < n THEN Len(seq) ELSE n)

\* App.getUpcomingMedicines
GetUpcomingMedicines(meds, t) ==
    SliceFromStart(SortByMinutesUntil(CollectUpcoming(meds, t)), UpcomingLimit)

\* --------------------------------------------- MedicineCard: classifier
\* the time rows rendered without the test of the frequency
CardRows_AnyFrequency(medicine) == medicine.times

\* medicine.frequency !== 'as-needed' && medicine.times.length > 0 && medicine.times.map(..)
CardRows(medicine) ==
    IF medicine.frequency # "as-needed" /\ Len(medicine.times) > 0
    THEN medicine.times
    ELSE << >>

\* MedicineCard.getNextDose: null (<< >>) for as-needed; else the first time of
\* the list, in the order of the list, that lies after now; else times[0]
GetNextDose(medicine, t) ==
    IF medicine.frequency = "as-needed" THEN << >>
    ELSE LET later == { i \in DOMAIN medicine.times :
                          MedicineMinutes(medicine.times[i]) > CurrentMinutes(t) }
         IN  IF later # {}
             THEN medicine.times[CHOOSE i \in later : \A j \in later : i <= j]
             ELSE IF Len(medicine.times) > 0 THEN medicine.times[1] ELSE << >>

\* takenTimes.includes(time)
IsTaken(taken, time) == time \in Range(taken)

\* a due test that looks only at the time after the slot
IsDueNow_AfterSlot(time, t) ==
    t - MedicineTime(time, t) >= 0 /\ t - MedicineTime(time, t) <= DueWindow

\* MedicineCard.isDueNow
IsDueNow(time, t) == Abs(t - MedicineTime(time, t)) <= DueWindow

\* MedicineCard.isOverdue
IsOverdue(taken, time, t) == t > MedicineTime(time, t) /\ ~IsTaken(taken, time)

\* the badges and icon the card renders for one time row
ShowsTaken(taken, time, t) == IsTaken(taken, time)
ShowsDueNow(taken, time, t) == IsDueNow(time, t) /\ ~IsTaken(taken, time)
ShowsOverdue(taken, time, t) == IsOverdue(taken, time, t) /\ ~IsTaken(taken, time)
ShowsFuture(taken, time, t) ==
    ~IsTaken(taken, time) /\ ~IsDueNow(time, t) /\ ~IsOverdue(taken, time, t)

\* ------------------------------------- NotificationAlert: pure functions
\* the notification window taken from the card's 15 minutes
WithinNotifyWindow_CardWindow(currentMinutes, medicineMinutes) ==
    Abs(currentMinutes - medicineMinutes) <= DueWindow

\* timeDiff <= 5
WithinNotifyWindow(currentMinutes, medicineMinutes) ==
    Abs(currentMinutes - medicineMinutes) <= NotifyWindow

\* the inner medicine.times.forEach of checkForDueMedicines
DueOfMedicine(medicine, dismissed, t) ==
    LET one(time) ==
            IF /\ WithinNotifyWindow(CurrentMinutes(t), MedicineMinutes(time))
               /\ NotificationId(medicine, time) \notin dismissed
            THEN << [ medicine |-> medicine, time |-> time,
                      id |-> NotificationId(medicine, time) ] >>
            ELSE << >>
    IN  IF medicine.frequency = "as-needed" THEN << >>
        ELSE Flatten([ i \in DOMAIN medicine.times |-> one(medicine.times[i]) ])

\* newDueNotifications of checkForDueMedicines
NewDueNotifications(meds, dismissed, t) ==
    Flatten([ i \in DOMAIN meds |-> DueOfMedicine(meds[i], dismissed, t) ])

\* newDueNotifications.map(n => n.id)
NotificationIds(due) == [ i \in DOMAIN due |-> due[i].id ]

\* the check for new ids without the look-up in hasPlayedSound
HasNewNotifications_IgnorePlayed(ids, played) == Len(ids) > 0

\* newNotificationIds.some(id => !hasPlayedSound.includes(id))
HasNewNotifications(ids, played) ==
    \E i \in DOMAIN ids : ids[i] \notin played

\* soundEnabled && newDueNotifications.length > 0 && hasNewNotifications
ShouldPlayAlarm(sound, due, played) ==
    sound /\ Len(due) > 0 /\ HasNewNotifications(NotificationIds(due), played)

\* playAlarmSound called inside the loop over the new ids
AlarmCalls_PerId(sound, due, played) ==
    IF sound
    THEN [ i \in 1..Len(SelectSeq(due, LAMBDA n : n.id \notin played)) |-> "auto" ]
    ELSE << >>

\* if (hasNewNotifications) playAlarmSound(): the calls one evaluation makes
AlarmCalls(sound, due, played) ==
    IF ShouldPlayAlarm(sound, due, played) THEN << "auto" >> ELSE << >>

\* an evaluation that alarms without recording the ids
AddPlayed_Nothing(prev, ids) == prev

\* setHasPlayedSound(prev => [...prev, ...newNotificationIds])
AddPlayed(prev, ids) == prev \cup Range(ids)

\* the replay guarded by the at-most-once list instead of the sound flag
ReplayCall_Always(sound) == << "replay" >>

\* handlePlayAlarmSound: if (soundEnabled) playAlarmSound()
ReplayCall(sound) == IF sound THEN << "replay" >> ELSE << >>

\* SoundManager.playAlarmSound with a platform that denies audio and no async
\* wrapper: the rejection reaches the caller as an exception
PlayAlarmSound_Throws(works) == [ heard |-> works, threw |-> ~works ]

\* SoundManager.playAlarmSound is an async function whose body awaits inside
\* try/catch: the caller gets a promise and never an exception
PlayAlarmSound(works) == [ heard |-> works, threw |-> FALSE ]

\* a cleanup that leaves the timer running
ClearInterval_Leak(n) == n

\* return () => clearInterval(interval): the cleanup of the previous run of the
\* effect, if there was one
ClearInterval(n) == IF n > 0 THEN n - 1 ELSE 0

\* const interval = setInterval(checkForDueMedicines, 60000)
SetInterval(n) == n + 1

\* NotificationAlert is rendered by App
AlertMounted == ~showForm /\ startup.phase # "crashed"

\* MedicineForm as it mounts: formData.frequency = '' and useState<string[]>([''])
FreshForm == [ frequency |-> "", times |-> << << >> >> ]

\* a frequency change that leaves the single time input of the fresh form
FrequencyTimes_OneField(frequency) == << << >> >>

\* handleFrequencyChange: Array(option.times).fill('') when option.times > 0, else ['']
FrequencyTimes(frequency) ==
    IF SlotCount(frequency) > 0
    THEN [ i \in 1..SlotCount(frequency) |-> << >> ]
    ELSE << << >> >>

\* handleTimeChange: newTimes[index] = time
SetTime(times, index, time) == [ times EXCEPT ![index] = time ]

\* the medicine of the collection that carries this id
MedicineOf(meds, id) == meds[CHOOSE i \in DOMAIN meds : meds[i].id = id]

\* MedicineForm.handleSubmit passes its validation
FormValid(input) ==
    /\ input.frequency # ""
    /\ input.frequency = "as-needed" \/ \A i \in DOMAIN input.times : input.times[i] # << >>

\* the medicine MedicineForm.handleSubmit hands to onAddMedicine
FormMedicine(id, input) ==
    [ id |-> id,
      frequency |-> input.frequency,
      times |-> IF input.frequency = "as-needed" THEN << >> ELSE input.times ]

\* ------------------------------------------------------------------ Init
Init ==
    /\ now = StartMinute
    /\ medicines = << >>
    /\ medicineLog = << >>
    /\ showForm = FALSE
    /\ activeTab = "home"
    /\ isMobile = TRUE
    /\ nextId = 1
    /\ takenTimes = << >>
    /\ dueNotifications = << >>
    /\ dismissedNotifications = {}
    /\ soundEnabled = TRUE
    /\ hasPlayedSound = {}
    /\ effectPending = FALSE
    /\ tickDue = FALSE
    /\ alarmCalls = << >>
    /\ lastDismissed = << >>
    /\ storedMedicines = StringifyMedicines(<< >>)
    /\ storedLog = StringifyLog(<< >>)
    /\ lastTake = << >>
    /\ audioWorks = TRUE
    /\ intervals = 1
    /\ startup = Running(storedMedicines, storedLog)
    /\ formData = FreshForm

\* --------------------------------------------------------------- actions
\* a clock whose new day empties the dismissed and played lists of the engine
ClockMinute_NewDayResets(last) ==
    /\ ~effectPending
    /\ now < last
    /\ AlertMounted => ~tickDue
    /\ now' = now + 1
    /\ tickDue' = AlertMounted
    /\ alarmCalls' = << >>
    /\ dismissedNotifications' =
          IF DateOf(now') # DateOf(now) THEN {} ELSE dismissedNotifications
    /\ hasPlayedSound' = IF DateOf(now') # DateOf(now) THEN {} ELSE hasPlayedSound
    /\ UNCHANGED << medicines, medicineLog, showForm, activeTab, isMobile, nextId,
                    takenTimes, dueNotifications, soundEnabled, effectPending,
                    lastDismissed, storedMedicines, storedLog, lastTake,
                    audioWorks, intervals, startup, formData >>

\* the wall clock reaches the next minute, up to the minute `last`; a mounted
\* engine polls once a minute.  No code runs: nothing but the clock changes.
ClockMinute(last) ==
    /\ ~effectPending
    /\ now < last
    /\ AlertMounted => ~tickDue
    /\ now' = now + 1
    /\ tickDue' = AlertMounted
    /\ alarmCalls' = << >>
    /\ UNCHANGED << audioWorks, intervals, startup, formData >>
    /\ UNCHANGED << storedMedicines, storedLog, lastTake >>
    /\ UNCHANGED << medicines, medicineLog, showForm, activeTab, isMobile, nextId,
                    takenTimes, dueNotifications, dismissedNotifications,
                    soundEnabled, hasPlayedSound, effectPending,
                    lastDismissed >>

\* the minutes of the session that starts empty
AdvanceClock == ClockMinute(StartMinute + MaxTicks)

\* one run of checkForDueMedicines
CheckForDueMedicines ==
    LET due == NewDueNotifications(medicines, dismissedNotifications, now)
        play == ShouldPlayAlarm(soundEnabled, due, hasPlayedSound)
        recorded == play /\ ~PlayAlarmSound(audioWorks).threw
    IN  /\ dueNotifications' = due
        /\ alarmCalls' = AlarmCalls(soundEnabled, due, hasPlayedSound)
        /\ UNCHANGED << audioWorks, startup, formData >>
        /\ hasPlayedSound' =
              IF recorded THEN AddPlayed(hasPlayedSound, NotificationIds(due))
              ELSE hasPlayedSound
        /\ effectPending' = recorded
        /\ tickDue' = FALSE
        /\ UNCHANGED << storedMedicines, storedLog, lastTake >>
        /\ UNCHANGED << now, medicines, medicineLog, showForm, activeTab, isMobile,
                        nextId, takenTimes, dismissedNotifications, soundEnabled,
                        lastDismissed >>

\* setInterval(checkForDueMedicines, 60000) fires
Tick ==
    /\ AlertMounted
    /\ ~effectPending
    /\ intervals > 0
    /\ CheckForDueMedicines
    /\ UNCHANGED intervals

\* the effect runs after a mount or a change of one of its dependencies: the
\* cleanup of its previous run, the immediate check, the new timer
RunEffect ==
    /\ AlertMounted
    /\ effectPending
    /\ CheckForDueMedicines
    /\ intervals' = SetInterval(ClearInterval(intervals))

\* MedicineCard.handleTakeMedicine from the Take button of a time row
CardTake(id, time) ==
    /\ ~effectPending
    /\ CardsMounted(showForm, isMobile, activeTab)
    /\ id \in DOMAIN takenTimes
    /\ MedicineOf(medicines, id).frequency # "as-needed"
    /\ time \in Range(MedicineOf(medicines, id).times)
    /\ ~IsTaken(takenTimes[id], time)
    /\ Len(medicineLog) < MaxTakes
    /\ takenTimes' = [ takenTimes EXCEPT ![id] = Append(@, time) ]
    /\ medicineLog' = AppTakeMedicine(medicineLog, medicines, id, time, now)
    /\ lastTake' = << id, time >>
    /\ alarmCalls' = << >>
    /\ UNCHANGED << audioWorks, intervals, startup, formData >>
    /\ storedLog' = SaveLog(storedLog, medicineLog, medicineLog')
    /\ UNCHANGED storedMedicines
    /\ UNCHANGED << now, medicines, showForm, activeTab, isMobile, nextId,
                    dueNotifications, dismissedNotifications, soundEnabled,
                    hasPlayedSound, effectPending, tickDue, lastDismissed >>

\* MedicineCard.handleTakeMedicine from the Take Now button of an as-needed card
CardTakeNow(id) ==
    /\ ~effectPending
    /\ CardsMounted(showForm, isMobile, activeTab)
    /\ id \in DOMAIN takenTimes
    /\ MedicineOf(medicines, id).frequency = "as-needed"
    /\ Len(medicineLog) < MaxTakes
    /\ takenTimes' = [ takenTimes EXCEPT ![id] = Append(@, CurrentTimeString(now)) ]
    /\ medicineLog' =
          AppTakeMedicine(medicineLog, medicines, id, CurrentTimeString(now), now)
    /\ lastTake' = << id, CurrentTimeString(now) >>
    /\ alarmCalls' = << >>
    /\ UNCHANGED << audioWorks, intervals, startup, formData >>
    /\ storedLog' = SaveLog(storedLog, medicineLog, medicineLog')
    /\ UNCHANGED storedMedicines
    /\ UNCHANGED << now, medicines, showForm, activeTab, isMobile, nextId,
                    dueNotifications, dismissedNotifications, soundEnabled,
                    hasPlayedSound, effectPending, tickDue, lastDismissed >>

\* NotificationAlert.handleTakeMedicine
NotificationTake(i) ==
    /\ ~effectPending
    /\ AlertMounted
    /\ i \in DOMAIN dueNotifications
    /\ Len(medicineLog) < MaxTakes
    /\ LET n == dueNotifications[i]
       IN  /\ medicineLog' =
                 AppTakeMedicine(medicineLog, medicines, n.medicine.id, n.time, now)
           /\ dismissedNotifications' = dismissedNotifications \cup { n.id }
           /\ lastDismissed' = << n.id, DateOf(now) >>
           /\ lastTake' = << n.medicine.id, n.time >>
           /\ effectPending' = TRUE
    /\ alarmCalls' = << >>
    /\ UNCHANGED << audioWorks, intervals, startup, formData >>
    /\ storedLog' = SaveLog(storedLog, medicineLog, medicineLog')
    /\ UNCHANGED storedMedicines
    /\ UNCHANGED << now, medicines, showForm, activeTab, isMobile, nextId,
                    takenTimes, dueNotifications, soundEnabled, hasPlayedSound,
                    tickDue >>

\* NotificationAlert.handleDismiss
NotificationDismiss(i) ==
    /\ ~effectPending
    /\ AlertMounted
    /\ i \in DOMAIN dueNotifications
    /\ LET n == dueNotifications[i]
       IN  /\ medicineLog' =
                 AppDismissNotification(medicineLog, n.medicine.id, n.time, now)
           /\ dismissedNotifications' = dismissedNotifications \cup { n.id }
           /\ lastDismissed' = << n.id, DateOf(now) >>
    /\ effectPending' = TRUE
    /\ alarmCalls' = << >>
    /\ UNCHANGED << audioWorks, intervals, startup, formData >>
    /\ storedLog' = SaveLog(storedLog, medicineLog, medicineLog')
    /\ UNCHANGED << storedMedicines, lastTake >>
    /\ UNCHANGED << now, medicines, showForm, activeTab, isMobile, nextId,
                    takenTimes, dueNotifications, soundEnabled, hasPlayedSound,
                    tickDue >>

\* the Sound On / Sound Off button: setSoundEnabled(!soundEnabled)
ToggleSound ==
    /\ ~effectPending
    /\ AlertMounted
    /\ Len(dueNotifications) > 0
    /\ soundEnabled' = ~soundEnabled
    /\ effectPending' = TRUE
    /\ alarmCalls' = << >>
    /\ UNCHANGED << audioWorks, intervals, startup, formData >>
    /\ UNCHANGED << storedMedicines, storedLog, lastTake >>
    /\ UNCHANGED << now, medicines, medicineLog, showForm, activeTab, isMobile,
                    nextId, takenTimes, dueNotifications, dismissedNotifications,
                    hasPlayedSound, tickDue, lastDismissed >>

\* the Play Alarm button: NotificationAlert.handlePlayAlarmSound
ReplayAlarm ==
    /\ ~effectPending
    /\ AlertMounted
    /\ Len(dueNotifications) > 0
    /\ alarmCalls' = ReplayCall(soundEnabled)
    /\ UNCHANGED << audioWorks, intervals, startup, formData >>
    /\ UNCHANGED << storedMedicines, storedLog, lastTake >>
    /\ UNCHANGED << now, medicines, medicineLog, showForm, activeTab, isMobile,
                    nextId, takenTimes, dueNotifications, dismissedNotifications,
                    soundEnabled, hasPlayedSound, effectPending, tickDue,
                    lastDismissed >>

\* the state of a NotificationAlert that is not rendered, and of one just mounted
AlertUnmounted ==
    /\ dueNotifications' = << >>
    /\ dismissedNotifications' = {}
    /\ soundEnabled' = TRUE
    /\ hasPlayedSound' = {}
    /\ tickDue' = FALSE

\* the Add Medicine buttons: setShowForm(true); App renders only the form
OpenForm ==
    /\ ~effectPending
    /\ ~showForm
    /\ showForm' = TRUE
    /\ takenTimes' = << >>
    /\ AlertUnmounted
    /\ effectPending' = FALSE
    /\ alarmCalls' = << >>
    /\ intervals' = ClearInterval(intervals)
    /\ formData' = FreshForm
    /\ UNCHANGED << audioWorks, startup >>
    /\ UNCHANGED << storedMedicines, storedLog, lastTake >>
    /\ UNCHANGED << now, medicines, medicineLog, activeTab, isMobile, nextId,
                    lastDismissed >>

\* the back arrow of the form: setShowForm(false); cards and NotificationAlert mount anew
CloseForm ==
    /\ showForm
    /\ showForm' = FALSE
    /\ takenTimes' = IF CardsMounted(FALSE, isMobile, activeTab)
                     THEN FreshCards(medicines) ELSE << >>
    /\ AlertUnmounted
    /\ effectPending' = TRUE
    /\ alarmCalls' = << >>
    /\ formData' = FreshForm
    /\ UNCHANGED << audioWorks, intervals, startup >>
    /\ UNCHANGED << storedMedicines, storedLog, lastTake >>
    /\ UNCHANGED << now, medicines, medicineLog, activeTab, isMobile, nextId,
                    lastDismissed >>

\* MedicineForm.handleSubmit, App.handleAddMedicine and onClose
SubmitForm(input) ==
    /\ showForm
    /\ nextId <= MaxAdds
    /\ FormValid(input)
    /\ medicines' = Append(medicines, FormMedicine(nextId, input))
    /\ nextId' = nextId + 1
    /\ showForm' = FALSE
    /\ takenTimes' = IF CardsMounted(FALSE, isMobile, activeTab)
                     THEN FreshCards(medicines') ELSE << >>
    /\ AlertUnmounted
    /\ effectPending' = TRUE
    /\ alarmCalls' = << >>
    /\ formData' = FreshForm
    /\ UNCHANGED << audioWorks, intervals, startup >>
    /\ storedMedicines' = SaveMedicines(storedMedicines, medicines, medicines')
    /\ UNCHANGED << storedLog, lastTake >>
    /\ UNCHANGED << now, medicineLog, activeTab, isMobile, lastDismissed >>

\* a delete that leaves the effect of NotificationAlert unscheduled
DeleteMedicine_NoEffect(id) ==
    /\ ~effectPending
    /\ CardsMounted(showForm, isMobile, activeTab)
    /\ id \in DOMAIN takenTimes
    /\ medicines' = DeleteFrom(medicines, id)
    /\ medicineLog' = LogAfterDelete(medicineLog, id)
    /\ takenTimes' = KeepCards(takenTimes, medicines')
    /\ alarmCalls' = << >>
    /\ storedMedicines' = SaveMedicines(storedMedicines, medicines, medicines')
    /\ storedLog' = SaveLog(storedLog, medicineLog, medicineLog')
    /\ UNCHANGED << now, showForm, activeTab, isMobile, nextId, dueNotifications,
                    dismissedNotifications, soundEnabled, hasPlayedSound, tickDue,
                    lastDismissed, effectPending, lastTake, audioWorks, intervals,
                    startup, formData >>

\* the trash button of a card: App.handleDeleteMedicine
DeleteMedicine(id) ==
    /\ ~effectPending
    /\ CardsMounted(showForm, isMobile, activeTab)
    /\ id \in DOMAIN takenTimes
    /\ medicines' = DeleteFrom(medicines, id)
    /\ medicineLog' = LogAfterDelete(medicineLog, id)
    /\ takenTimes' = KeepCards(takenTimes, medicines')
    /\ effectPending' = TRUE
    /\ alarmCalls' = << >>
    /\ UNCHANGED << audioWorks, intervals, startup, formData >>
    /\ storedMedicines' = SaveMedicines(storedMedicines, medicines, medicines')
    /\ storedLog' = SaveLog(storedLog, medicineLog, medicineLog')
    /\ UNCHANGED lastTake
    /\ UNCHANGED << now, showForm, activeTab, isMobile, nextId,
                    dueNotifications, dismissedNotifications, soundEnabled,
                    hasPlayedSound, tickDue, lastDismissed >>

\* MobileBottomNav: onTabChange(tab.id); the tab content is keyed by activeTab
TabChange(tab) ==
    /\ ~effectPending
    /\ ~showForm
    /\ isMobile
    /\ tab \in VisitedTabs
    /\ tab # activeTab
    /\ activeTab' = tab
    /\ takenTimes' = IF CardsMounted(showForm, isMobile, tab)
                     THEN FreshCards(medicines) ELSE << >>
    /\ alarmCalls' = << >>
    /\ UNCHANGED << audioWorks, intervals, startup, formData >>
    /\ UNCHANGED << storedMedicines, storedLog, lastTake >>
    /\ UNCHANGED << now, medicines, medicineLog, showForm, isMobile, nextId,
                    dueNotifications, dismissedNotifications, soundEnabled,
                    hasPlayedSound, effectPending, tickDue,
                    lastDismissed >>

Next ==
    \/ AdvanceClock
    \/ Tick
    \/ RunEffect
    \/ \E id \in DOMAIN takenTimes, time \in SlotTimes : CardTake(id, time)
    \/ \E id \in DOMAIN takenTimes : CardTakeNow(id)
    \/ \E i \in DOMAIN dueNotifications : NotificationTake(i)
    \/ \E i \in DOMAIN dueNotifications : NotificationDismiss(i)
    \/ ToggleSound
    \/ ReplayAlarm
    \/ OpenForm
    \/ CloseForm
    \/ \E input \in FormInputs : SubmitForm(input)
    \/ \E id \in DOMAIN takenTimes : DeleteMedicine(id)
    \/ \E tab \in VisitedTabs : TabChange(tab)

Spec == Init /\ [][Next]_vars

\* ------------------------------------- the application opened on stored data
\* the state after App has mounted and loaded a stored collection at some time
\* of day; the effect of NotificationAlert is scheduled
CoreInit ==
    /\ now \in CoreNows
    /\ medicines \in CoreMedicineLists
    /\ medicineLog = << >>
    /\ showForm = FALSE
    /\ activeTab = "home"
    /\ isMobile = TRUE
    /\ nextId = 1
    /\ takenTimes = FreshCards(medicines)
    /\ dueNotifications = << >>
    /\ dismissedNotifications = {}
    /\ soundEnabled = TRUE
    /\ hasPlayedSound = {}
    /\ effectPending = TRUE
    /\ tickDue = FALSE
    /\ alarmCalls = << >>
    /\ lastDismissed = << >>
    /\ storedMedicines = StringifyMedicines(medicines)
    /\ storedLog = StringifyLog(<< >>)
    /\ lastTake = << >>
    /\ audioWorks = TRUE
    /\ intervals = 0
    /\ startup = Running(storedMedicines, storedLog)
    /\ formData = FreshForm

\* App.handleTakeMedicine called with a medicine id and a time
CoreTake(medicineId, time) ==
    /\ startup.phase = "running"
    /\ ~effectPending
    /\ Len(medicineLog) < MaxTakes
    /\ medicineLog' = AppTakeMedicine(medicineLog, medicines, medicineId, time, now)
    /\ storedLog' = SaveLog(storedLog, medicineLog, medicineLog')
    /\ lastTake' = << medicineId, time >>
    /\ alarmCalls' = << >>
    /\ UNCHANGED << audioWorks, intervals, startup, formData >>
    /\ UNCHANGED << now, medicines, showForm, activeTab, isMobile, nextId,
                    takenTimes, dueNotifications, dismissedNotifications,
                    soundEnabled, hasPlayedSound, effectPending, tickDue,
                    lastDismissed, storedMedicines >>

CoreNext ==
    \/ RunEffect
    \/ \E id \in DOMAIN takenTimes, time \in CoreSlotTimes : CardTake(id, time)
    \/ \E medicineId \in CoreIds, time \in CoreSlotTimes : CoreTake(medicineId, time)

CoreSpec == CoreInit /\ [][CoreNext]_vars

\* ---------------------------------------------- the editing of the form
\* the Select of the form: MedicineForm.handleFrequencyChange
FrequencyChange(frequency) ==
    /\ showForm
    /\ frequency # formData.frequency
    /\ formData' = [ frequency |-> frequency, times |-> FrequencyTimes(frequency) ]
    /\ UNCHANGED << now, medicines, medicineLog, showForm, activeTab, isMobile,
                    nextId, takenTimes, dueNotifications, dismissedNotifications,
                    soundEnabled, hasPlayedSound, effectPending, tickDue,
                    alarmCalls, lastDismissed, storedMedicines, storedLog,
                    lastTake, audioWorks, intervals, startup >>

\* a time input of the form, rendered once a frequency other than as-needed is
\* selected: MedicineForm.handleTimeChange
TimeChange(index, time) ==
    /\ showForm
    /\ formData.frequency # ""
    /\ formData.frequency # "as-needed"
    /\ index \in DOMAIN formData.times
    /\ time # formData.times[index]
    /\ formData' = [ formData EXCEPT !.times = SetTime(@, index, time) ]
    /\ UNCHANGED << now, medicines, medicineLog, showForm, activeTab, isMobile,
                    nextId, takenTimes, dueNotifications, dismissedNotifications,
                    soundEnabled, hasPlayedSound, effectPending, tickDue,
                    alarmCalls, lastDismissed, storedMedicines, storedLog,
                    lastTake, audioWorks, intervals, startup >>

\* the page is loaded again: every component mounts anew and the load effect
\* of App reads back the two records the save effects have written
Reload ==
    /\ ~effectPending
    /\ storedMedicines.kind = "array"
    /\ storedLog.kind = "array"
    /\ medicines' = AfterSet(<< >>, LoadRecord(storedMedicines, ParseMedicines(storedMedicines)))
    /\ medicineLog' = AfterSet(<< >>, LoadRecord(storedLog, ParseLog(storedLog)))
    /\ showForm' = FALSE
    /\ activeTab' = "home"
    /\ takenTimes' = FreshCards(medicines')
    /\ AlertUnmounted
    /\ intervals' = 0
    /\ effectPending' = TRUE
    /\ alarmCalls' = << >>
    /\ formData' = FreshForm
    /\ startup' = Running(storedMedicines, storedLog)
    /\ UNCHANGED << now, isMobile, nextId, lastDismissed, storedMedicines,
                    storedLog, lastTake, audioWorks >>

\* the Add Medicine button of the form, with what the form then holds
SubmitEdited == SubmitForm(formData)

FormInit == Init

FormNext ==
    \/ OpenForm
    \/ CloseForm
    \/ \E frequency \in FormFrequencies : FrequencyChange(frequency)
    \/ \E index \in 1..4, time \in FormTimes : TimeChange(index, time)
    \/ SubmitEdited
    \/ RunEffect
    \/ \E i \in DOMAIN dueNotifications : NotificationDismiss(i)
    \/ ToggleSound
    \/ \E id \in DOMAIN takenTimes : DeleteMedicine(id)
    \/ Reload

FormSpec == FormInit /\ [][FormNext]_vars

\* ------------------------------------- a session that runs into the next day
\* the application is open on one medicine from shortly before its slot until
\* shortly after the same slot of the next day; the platform plays audio or denies it
DayInit ==
    /\ now = DayStart
    /\ medicines = DayMedicines
    /\ medicineLog = << >>
    /\ showForm = FALSE
    /\ activeTab = "home"
    /\ isMobile = TRUE
    /\ nextId = 1
    /\ takenTimes = FreshCards(medicines)
    /\ dueNotifications = << >>
    /\ dismissedNotifications = {}
    /\ soundEnabled = TRUE
    /\ hasPlayedSound = {}
    /\ effectPending = TRUE
    /\ tickDue = FALSE
    /\ alarmCalls = << >>
    /\ lastDismissed = << >>
    /\ storedMedicines = StringifyMedicines(medicines)
    /\ storedLog = StringifyLog(<< >>)
    /\ lastTake = << >>
    /\ audioWorks \in BOOLEAN
    /\ intervals = 0
    /\ startup = Running(storedMedicines, storedLog)
    /\ formData = FreshForm

\* the minutes of that session
DayMinute == ClockMinute(DayLast)

DayNext ==
    \/ DayMinute
    \/ Tick
    \/ RunEffect
    \/ \E i \in DOMAIN dueNotifications : NotificationTake(i)
    \/ \E i \in DOMAIN dueNotifications : NotificationDismiss(i)

DaySpec == DayInit /\ [][DayNext]_vars

\* ------------------------------------------- the mount sequence of App
\* App has rendered for the first time, with its initial empty collections, at
\* StartupNow; localStorage holds whatever an earlier session or anything else
\* has left there
StartupInit ==
    /\ now = StartupNow
    /\ medicines = << >>
    /\ medicineLog = << >>
    /\ showForm = FALSE
    /\ activeTab = "home"
    /\ isMobile = TRUE
    /\ nextId = 1
    /\ takenTimes = << >>
    /\ dueNotifications = << >>
    /\ dismissedNotifications = {}
    /\ soundEnabled = TRUE
    /\ hasPlayedSound = {}
    /\ effectPending = FALSE
    /\ tickDue = FALSE
    /\ alarmCalls = << >>
    /\ lastDismissed = << >>
    /\ storedMedicines \in StoredMedicineRecords
    /\ storedLog \in StoredLogRecords
    /\ lastTake = << >>
    /\ audioWorks = TRUE
    /\ intervals = 0
    /\ startup = [ phase |-> "mounted", medicines |-> NotSet, log |-> NotSet,
                   beforeMedicines |-> storedMedicines, beforeLog |-> storedLog ]
    /\ formData = FreshForm

\* the effects of the first commit, in the order React runs them: the effect of
\* NotificationAlert (its check finds nothing in the empty collection, its
\* timer starts), the load effect of App, which queues what it could parse,
\* and the two save effects, which write the collections of the first render
MountEffects ==
    /\ startup.phase = "mounted"
    /\ startup' = [ startup EXCEPT
                      !.phase = "loaded",
                      !.medicines = LoadRecord(storedMedicines, ParseMedicines(storedMedicines)),
                      !.log = LoadRecord(storedLog, ParseLog(storedLog)) ]
    /\ storedMedicines' = StringifyMedicines(medicines)
    /\ storedLog' = StringifyLog(medicineLog)
    /\ dueNotifications' = NewDueNotifications(medicines, dismissedNotifications, now)
    /\ intervals' = SetInterval(intervals)
    /\ alarmCalls' = << >>
    /\ UNCHANGED << now, medicines, medicineLog, showForm, activeTab, isMobile,
                    nextId, takenTimes, dismissedNotifications, soundEnabled,
                    hasPlayedSound, effectPending, tickDue, lastDismissed,
                    lastTake, audioWorks, formData >>

\* the render with the queued collections and the effects of its commit: a
\* render that throws takes the whole tree down (there is no error boundary);
\* otherwise the cards mount, the save effects write the loaded collections
\* and the effect of NotificationAlert is scheduled for the new medicines
Rerender ==
    /\ startup.phase = "loaded"
    /\ alarmCalls' = << >>
    /\ IF RenderThrows(startup.medicines, startup.log)
       THEN /\ startup' = [ startup EXCEPT !.phase = "crashed" ]
            /\ intervals' = ClearInterval(intervals)
            /\ UNCHANGED << medicines, medicineLog, takenTimes, effectPending,
                            storedMedicines, storedLog >>
       ELSE /\ startup' = Running(startup.beforeMedicines, startup.beforeLog)
            /\ medicines' = AfterSet(medicines, startup.medicines)
            /\ medicineLog' = AfterSet(medicineLog, startup.log)
            /\ takenTimes' = FreshCards(medicines')
            /\ effectPending' = startup.medicines.set
            /\ storedMedicines' = SaveMedicines(storedMedicines, medicines, medicines')
            /\ storedLog' = SaveLog(storedLog, medicineLog, medicineLog')
            /\ UNCHANGED intervals
    /\ UNCHANGED << now, showForm, activeTab, isMobile, nextId, dueNotifications,
                    dismissedNotifications, soundEnabled, hasPlayedSound, tickDue,
                    lastDismissed, lastTake, audioWorks, formData >>

StartupNext ==
    \/ MountEffects
    \/ Rerender
    \/ RunEffect
    \/ \E medicineId \in CoreIds, time \in CoreSlotTimes : CoreTake(medicineId, time)

StartupSpec == StartupInit /\ [][StartupNext]_vars

\* ------------------------------------------------- derived state views
\* const upcomingMedicines = getUpcomingMedicines()
UpcomingMedicines == GetUpcomingMedicines(medicines, now)

\* the (medicine id, time) rows of the mounted cards
MountedRows ==
    UNION { { << id, time >> : time \in Range(CardRows(MedicineOf(medicines, id))) } :
            id \in DOMAIN takenTimes }

\* the ids of the notifications on show
DueIds == Range(NotificationIds(dueNotifications))

\* dueNotifications is the result of an evaluation of the current inputs at the current minute
Evaluated == AlertMounted /\ ~effectPending /\ ~tickDue

\* the (medicine, time) pairs the engine is meant to show
ExpectedDue ==
    { << m, time >> \in Range(medicines) \X SlotTimes :
        /\ m.frequency # "as-needed"
        /\ time \in Range(m.times)
        /\ CurrentMinutes(now) - MedicineMinutes(time) \in -NotifyWindow..NotifyWindow
        /\ << m.id, time >> \notin dismissedNotifications }

\* a card row of a scheduled medicine is on screen for this log entry
CardRowOf(e) ==
    /\ CardsMounted(showForm, isMobile, activeTab)
    /\ e.medicineId \in DOMAIN takenTimes
    /\ MedicineOf(medicines, e.medicineId).frequency # "as-needed"
    /\ e.time \in Range(MedicineOf(medicines, e.medicineId).times)

\* ---------------------------------------------------------------- claims
\* C6: after every evaluation the due set is exactly the (medicine, time) pairs of
\* the scheduled medicines whose slot is within 5 minutes of now and whose id is
\* not dismissed; nothing of the previous due set is carried over.
C6_DueSetExact ==
    Evaluated =>
        { << n.medicine, n.time >> : n \in Range(dueNotifications) } = ExpectedDue

\* C6 witness: an id that was due and played earlier has left the window and is gone
\* from the due set, while another notification is on show.
C6_Witness ==
    /\ Evaluated
    /\ dueNotifications # << >>
    /\ \E id \in hasPlayedSound \ dismissedNotifications :
          /\ id \notin DueIds
          /\ \E m \in Range(medicines) : m.id = id[1] /\ id[2] \in Range(m.times)

\* C7: an evaluation with sound enabled and a new id in the new due set calls the
\* alarm exactly once and puts every new id into hasPlayedSound; any other
\* evaluation calls no alarm and leaves hasPlayedSound as it was.
C7_AlarmOncePerEvaluation ==
    [][ LET newIds == DueIds' \ hasPlayedSound
        IN  \/ IF soundEnabled /\ newIds # {}
               THEN alarmCalls' = << "auto" >> /\ newIds \subseteq hasPlayedSound'
               ELSE alarmCalls' = << >> /\ hasPlayedSound' = hasPlayedSound
            \/ ~(Tick \/ RunEffect) ]_vars

\* C7 witness: one evaluation has just played the alarm for two new ids at once.
C7_Witness ==
    /\ alarmCalls = << "auto" >>
    /\ Cardinality(DueIds) >= 2
    /\ DueIds \subseteq hasPlayedSound

\* C8: taking from a notification appends one entry for (medicineId, time) to the
\* log and puts the id into dismissed, and an evaluated due set holds no dismissed id.
C8_TakeFromNotification ==
    /\ [][ \A i \in DOMAIN dueNotifications :
             NotificationTake(i) =>
               /\ medicineLog' =
                     Append(medicineLog,
                            [ medicineId |-> dueNotifications[i].medicine.id,
                              time |-> dueNotifications[i].time,
                              date |-> DateOf(now) ])
               /\ dueNotifications[i].id \in dismissedNotifications' ]_vars
    /\ [](Evaluated => DueIds \cap dismissedNotifications = {})

\* C8 witness: a take from a notification was logged and, after the next
\* evaluation, its id is dismissed and no longer in the due set.
C8_Witness ==
    /\ Evaluated
    /\ \E i \in DOMAIN medicineLog :
          LET e == medicineLog[i]
          IN  /\ << e.medicineId, e.time >> \in dismissedNotifications
              /\ << e.medicineId, e.time >> \notin DueIds
              /\ WithinNotifyWindow(CurrentMinutes(now), MedicineMinutes(e.time))
              /\ CardRowOf(e)
              /\ ~IsTaken(takenTimes[e.medicineId], e.time)

\* C9: dismissing a notification puts its id into dismissed and leaves the log,
\* the medicine collection and hasPlayedSound unchanged.
C9_DismissRecordsNoTake ==
    [][ \A i \in DOMAIN dueNotifications :
          NotificationDismiss(i) =>
            /\ dueNotifications[i].id \in dismissedNotifications'
            /\ UNCHANGED << medicineLog, medicines, hasPlayedSound >> ]_vars

\* C9 witness: an id is dismissed, was played, and no take was ever recorded.
C9_Witness ==
    /\ dismissedNotifications # {}
    /\ dismissedNotifications \subseteq hasPlayedSound
    /\ medicineLog = << >>

\* the due list and the alarm calls of the effect run that is pending
EffectRunDue == NewDueNotifications(medicines, dismissedNotifications, now)
EffectRunCalls == AlarmCalls(soundEnabled, EffectRunDue, hasPlayedSound)

NotificationShown == AlertMounted /\ ~effectPending /\ dueNotifications # << >>

\* C10 as stated: in every state in which a notification is shown the replay
\* button plays the alarm, whatever the engine state.
C10_ReplayAlwaysPlays ==
    NotificationShown => ENABLED (ReplayAlarm /\ alarmCalls' = << "replay" >>)

\* C10 amended: in every state in which a notification is shown the replay button
\* can be pressed; it plays the alarm when sound is enabled, whether or not the
\* ids are in hasPlayedSound, and plays nothing when sound is disabled.
C10_ReplayFollowsSoundFlag ==
    NotificationShown =>
        /\ ENABLED ReplayAlarm
        /\ soundEnabled => ENABLED (ReplayAlarm /\ alarmCalls' = << "replay" >>)
        /\ ~soundEnabled => ~ENABLED (ReplayAlarm /\ alarmCalls' # << >>)

\* C10 witness: the replay played the alarm although every due id is in hasPlayedSound.
C10_Witness ==
    /\ alarmCalls = << "replay" >>
    /\ DueIds # {}
    /\ DueIds \subseteq hasPlayedSound

\* C1 as stated: every (medicine, time) the log records as taken today is shown as
\* Taken by its card, and not as Future, Due-now or Overdue.
C1_TakenStaysTaken ==
    \A i \in DOMAIN medicineLog :
        LET e == medicineLog[i]
        IN  (e.date = DateOf(now) /\ CardRowOf(e)) =>
                /\ ShowsTaken(takenTimes[e.medicineId], e.time, now)
                /\ ~ShowsDueNow(takenTimes[e.medicineId], e.time, now)
                /\ ~ShowsOverdue(takenTimes[e.medicineId], e.time, now)
                /\ ~ShowsFuture(takenTimes[e.medicineId], e.time, now)

\* C2 as stated, for the id dismissed last: an id dismissed or taken from its
\* notification today is in no due set that an evaluation has computed since.
C2_DismissedNeverDueAgain ==
    (AlertMounted /\ ~effectPending /\ lastDismissed # << >>) =>
        (lastDismissed[2] = DateOf(now) => lastDismissed[1] \notin DueIds)

\* C4 as stated: no step removes an id from dismissed or from hasPlayedSound.
C4_SetsOnlyGrow ==
    [][ /\ dismissedNotifications \subseteq dismissedNotifications'
        /\ hasPlayedSound \subseteq hasPlayedSound' ]_vars

\* C5 as stated: every notification of an evaluated due set is shown by its card
\* as due-now or overdue, never as Taken or Future.
C5_DueIsDueOnCard ==
    (Evaluated /\ CardsMounted(showForm, isMobile, activeTab)) =>
        \A n \in Range(dueNotifications) :
            LET taken == takenTimes[n.medicine.id]
            IN  /\ ShowsDueNow(taken, n.time, now) \/ ShowsOverdue(taken, n.time, now)
                /\ ~ShowsTaken(taken, n.time, now)
                /\ ~ShowsFuture(taken, n.time, now)

\* some medicine of the collection is scheduled at this time of day
Scheduled(time) ==
    \E i \in DOMAIN medicines :
        medicines[i].frequency # "as-needed" /\ time \in Range(medicines[i].times)

\* C11: every entry of the upcoming list is a slot whose minute of the day is
\* strictly greater than the current one, with minutesUntil equal to the
\* positive difference; a slot at or before the current minute is not carried
\* over to tomorrow.
C11_UpcomingStrictlyAfterNow ==
    \A k \in DOMAIN UpcomingMedicines :
        LET e == UpcomingMedicines[k]
        IN  /\ MedicineMinutes(e.time) > CurrentMinutes(now)
            /\ e.minutesUntil = MedicineMinutes(e.time) - CurrentMinutes(now)
            /\ e.minutesUntil > 0
            /\ e.minutesUntil < MinutesPerDay

\* C11 witness: at 08:03 the 08:00 slot of a medicine is left out and its
\* 20:00 slot is listed 717 minutes ahead.
C11_Witness ==
    /\ now = 483
    /\ Scheduled(<<8, 0>>)
    /\ Len(UpcomingMedicines) = 1
    /\ UpcomingMedicines[1].time = <<20, 0>>
    /\ UpcomingMedicines[1].minutesUntil = 717

\* C12: the upcoming list is in ascending order of minutesUntil, and entries
\* with the same minutesUntil are in the order in which they were collected.
C12_UpcomingSortedStable ==
    LET up == UpcomingMedicines
        collected == CollectUpcoming(medicines, now)
        Pos(e) == CHOOSE k \in DOMAIN collected : collected[k] = e
    IN  \A i, j \in DOMAIN up :
            i < j =>
                /\ up[i].minutesUntil <= up[j].minutesUntil
                /\ up[i].minutesUntil = up[j].minutesUntil => Pos(up[i]) < Pos(up[j])

\* C12 witness: at 07:00 two medicines share the 08:00 slot, the first one was
\* collected with its 20:00 slot in front; the list starts with the two 08:00
\* entries in insertion order.
C12_Witness ==
    /\ now = 420
    /\ Len(medicines) = 2
    /\ medicines[1].times = << <<20, 0>>, <<8, 0>> >>
    /\ Len(UpcomingMedicines) = 3
    /\ UpcomingMedicines[1].medicine.id = 1 /\ UpcomingMedicines[1].time = <<8, 0>>
    /\ UpcomingMedicines[2].medicine.id = 2 /\ UpcomingMedicines[2].time = <<8, 0>>
    /\ UpcomingMedicines[3].time = <<20, 0>>

\* C13 as stated: every slot of a scheduled medicine that lies strictly after
\* now is in the upcoming list; the projection cuts nothing off.
C13_UpcomingIsComplete ==
    \A i \in DOMAIN medicines :
        \A time \in Range(medicines[i].times) :
            (medicines[i].frequency # "as-needed"
                /\ MedicineMinutes(time) > CurrentMinutes(now))
            => \E k \in DOMAIN UpcomingMedicines :
                   /\ UpcomingMedicines[k].medicine.id = medicines[i].id
                   /\ UpcomingMedicines[k].time = time

\* the distance in minutes between the current time of day and a slot of the
\* current calendar day
SameDayDistance(time) == Abs(CurrentMinutes(now) - MedicineMinutes(time))

\* the distance in minutes between now and the nearest occurrence of a slot,
\* yesterday's, today's or tomorrow's
NearestDistance(time) ==
    IF SameDayDistance(time) <= MinutesPerDay - SameDayDistance(time)
    THEN SameDayDistance(time)
    ELSE MinutesPerDay - SameDayDistance(time)

\* C14: a card row that is not taken shows Due Now exactly when now is at most
\* 15 minutes before or after the slot's time of the current day.
C14_DueNowWithinFifteen ==
    \A r \in MountedRows :
        ~IsTaken(takenTimes[r[1]], r[2]) =>
            (ShowsDueNow(takenTimes[r[1]], r[2], now) <=> SameDayDistance(r[2]) <= 15)

\* C14 witness: at 08:03 the untaken 08:00 row of a card is due now and the
\* 20:00 row of the same card is future.
C14_Witness ==
    /\ now = 483
    /\ \E id \in DOMAIN takenTimes :
          /\ << id, <<8, 0>> >> \in MountedRows
          /\ << id, <<20, 0>> >> \in MountedRows
          /\ ShowsDueNow(takenTimes[id], <<8, 0>>, now)
          /\ ShowsFuture(takenTimes[id], <<20, 0>>, now)

\* C15 as stated: no card row shows Due Now and Overdue at the same time; a
\* row inside the 15 minutes after its slot is due now and not overdue.
C15_DueNowExcludesOverdue ==
    \A r \in MountedRows :
        ~( /\ ShowsDueNow(takenTimes[r[1]], r[2], now)
           /\ ShowsOverdue(takenTimes[r[1]], r[2], now) )

\* C16 as stated: an untaken row whose slot is at most 15 minutes away on the
\* wall clock shows Due Now, also when midnight lies between now and the slot.
C16_DueNowAcrossMidnight ==
    \A r \in MountedRows :
        (~IsTaken(takenTimes[r[1]], r[2]) /\ NearestDistance(r[2]) <= 15)
            => ShowsDueNow(takenTimes[r[1]], r[2], now)

\* C17: a medicine with frequency as-needed is in no entry of the upcoming
\* list, in no notification of the due set (the one on show and the one an
\* evaluation would compute) and has no classified row on its card, whatever
\* its times list holds.
C17_AsNeededNeverScheduled ==
    \A i \in DOMAIN medicines :
        medicines[i].frequency = "as-needed" =>
            /\ \A k \in DOMAIN UpcomingMedicines :
                   UpcomingMedicines[k].medicine.id # medicines[i].id
            /\ \A n \in Range(dueNotifications) : n.medicine.id # medicines[i].id
            /\ \A n \in Range(NewDueNotifications(medicines, dismissedNotifications, now)) :
                   n.medicine.id # medicines[i].id
            /\ \A r \in MountedRows : r[1] # medicines[i].id

\* C17 witness: at 08:03 the collection holds an as-needed medicine whose times
\* list names 08:00 next to a scheduled one; the engine has evaluated and shows
\* the scheduled one only.
C17_Witness ==
    /\ now = 483
    /\ Evaluated
    /\ Len(medicines) = 2
    /\ medicines[1].frequency = "as-needed"
    /\ medicines[1].times = << <<8, 0>> >>
    /\ 1 \in DOMAIN takenTimes
    /\ Len(dueNotifications) = 1
    /\ dueNotifications[1].medicine.id = 2

\* a is an initial part of b
IsPrefix(a, b) == Len(a) <= Len(b) /\ SubSeq(b, 1, Len(a)) = a

\* the step is a take action: from a card row, from Take Now or from a notification
TakeStep ==
    \/ \E id \in DOMAIN takenTimes, time \in SlotTimes : CardTake(id, time)
    \/ \E id \in DOMAIN takenTimes : CardTakeNow(id)
    \/ \E i \in DOMAIN dueNotifications : NotificationTake(i)

MedicineIds == { medicines[i].id : i \in DOMAIN medicines }

\* C19: a call of the take handler with an id that no medicine of the
\* collection carries changes neither the log nor the collection nor the two
\* stored records.
C19_UnknownTakeIgnored ==
    [][ \A medicineId \in CoreIds, time \in CoreSlotTimes :
            (CoreTake(medicineId, time) /\ medicineId \notin MedicineIds)
                => UNCHANGED << medicineLog, medicines, storedMedicines, storedLog >> ]_vars

\* C19 witness: the handler was called last with an id that is not in the
\* non-empty collection, and the log and its stored record are still empty.
C19_Witness ==
    /\ lastTake # << >>
    /\ lastTake[1] \notin MedicineIds
    /\ medicines # << >>
    /\ medicineLog = << >>
    /\ storedLog = StringifyLog(<< >>)

\* C20: the stored medicines record and the stored log record, read back, equal
\* the collections in memory once an operation (add, delete, take, ...) is
\* complete.
C20_StoredEqualsMemory ==
    /\ ParseMedicines(storedMedicines) = medicines
    /\ ParseLog(storedLog) = medicineLog

\* C20 witness: a medicine was added, a dose of it was taken and the medicine
\* was deleted; the stored medicines record is empty again and the stored log
\* holds the entry.
C20_Witness ==
    /\ nextId > 1
    /\ medicines = << >>
    /\ storedMedicines = StringifyMedicines(<< >>)
    /\ Len(medicineLog) = 1
    /\ Len(storedLog.items) = 1

\* ------------------------------------------------------------------ C21
\* a record of the store is malformed: the text does not parse, or it parses to
\* something that is not an array
Malformed(text) == text.kind \in { "invalid", "other" }

\* no user action has happened since the start
BeforeFirstMutation == lastTake = << >>

\* C21: when a persisted record is malformed at startup, startup completes
\* without failing, the collection of that record is empty, and the other
\* record is loaded normally when it is well-formed.
C21_MalformedRecordTolerated ==
    /\ startup.phase # "crashed"
    /\ (startup.phase = "running" /\ BeforeFirstMutation) =>
          /\ Malformed(startup.beforeMedicines) =>
                /\ medicines = << >>
                /\ startup.beforeLog.kind = "array" =>
                      medicineLog = ParseLog(startup.beforeLog)
          /\ Malformed(startup.beforeLog) =>
                /\ medicineLog = << >>
                /\ startup.beforeMedicines.kind = "array" =>
                      medicines = ParseMedicines(startup.beforeMedicines)

\* ------------------------------------------------------------------ C30
\* C30: from the start of the mount sequence until the first user mutation, a
\* persisted record that held valid data before startup still holds exactly
\* that data.
C30_StartupKeepsStoredData ==
    BeforeFirstMutation =>
        /\ startup.beforeMedicines.kind = "array" =>
              storedMedicines = startup.beforeMedicines
        /\ startup.beforeLog.kind = "array" =>
              storedLog = startup.beforeLog

\* ------------------------------------------------------------------ C22
\* C22: whether audio playback succeeds or fails, an evaluation that calls the
\* alarm records the ids it alarmed for and schedules the re-evaluation, the
\* due set is the one computed from medicines, dismissed list and clock alone,
\* and while a notification is shown dismiss and (within the take bound) take
\* are enabled.
C22_AudioFailureChangesNothing ==
    /\ [][ alarmCalls' # << "auto" >>
           \/ (DueIds' \subseteq hasPlayedSound' /\ effectPending') ]_vars
    /\ [](Evaluated => dueNotifications = EffectRunDue)
    /\ [](NotificationShown =>
            /\ ENABLED NotificationDismiss(1)
            /\ Len(medicineLog) < MaxTakes => ENABLED NotificationTake(1))

\* the platform denies audio, the alarm was called for the 08:00 slot, and the
\* engine has recorded the id all the same
C22_Witness ==
    /\ ~audioWorks
    /\ alarmCalls = << "auto" >>
    /\ DueIds = { << 1, <<8, 0>> >> }
    /\ DueIds \subseteq hasPlayedSound

C23_OneTimerAtMost ==
    /\ intervals <= 1
    /\ ~AlertMounted => intervals = 0
    /\ (AlertMounted /\ ~effectPending) => intervals = 1

\* a notification was dismissed or taken, the effect has run again for the new
\* dismissed list, and one timer is alive
C23_Witness ==
    /\ AlertMounted
    /\ ~effectPending
    /\ dismissedNotifications # {}
    /\ intervals = 1

\* ------------------------------------------------------------------ C25
\* a time of day written HH:MM
ValidTime(time) == time \in (0..23) \X (0..59)

\* the times of a medicine fit its frequency
WellFormed(medicine) ==
    IF medicine.frequency = "as-needed"
    THEN medicine.times = << >>
    ELSE /\ Len(medicine.times) = SlotCount(medicine.frequency)
         /\ SlotCount(medicine.frequency) > 0
         /\ \A i \in DOMAIN medicine.times : ValidTime(medicine.times[i])

\* C25: every medicine of the collection that is not as-needed has exactly as
\* many times as its frequency has slots, each a valid HH:MM, and every
\* as-needed medicine has no times; this holds after every sequence of form
\* edits and submissions, and for what a load of the stored record gives.
C25_TimesFitFrequency ==
    /\ \A i \in DOMAIN medicines : WellFormed(medicines[i])
    /\ \A i \in DOMAIN ParseMedicines(storedMedicines) :
           WellFormed(ParseMedicines(storedMedicines)[i])

\* a three-times-daily medicine was submitted through the form and the page
\* was loaded again after that
C25_Witness ==
    /\ Len(medicines) > 0
    /\ medicines[1].frequency = "three-times-daily"
    /\ startup.beforeMedicines = StringifyMedicines(medicines)

\* ------------------------------------------------------------------ C24
\* C24: a step that changes the collection, the dismissed list or the sound
\* flag of a rendered engine schedules the effect, and the only step taken
\* while it is scheduled is its run; so once nothing is scheduled every
\* notification on show belongs to a medicine of the collection and is not
\* dismissed, and every slot of the collection within five minutes of the
\* clock that is not dismissed is on show.
C24_ImmediateReevaluation ==
    /\ [][ \/ ~AlertMounted'
           \/ effectPending'
           \/ /\ medicines' = medicines
              /\ dismissedNotifications' = dismissedNotifications
              /\ soundEnabled' = soundEnabled ]_vars
    /\ [][ effectPending => dueNotifications' = EffectRunDue ]_vars
    /\ [](AlertMounted /\ ~effectPending =>
            /\ \A i \in DOMAIN dueNotifications :
                  /\ dueNotifications[i].medicine \in Range(medicines)
                  /\ dueNotifications[i].id \notin dismissedNotifications
            /\ \A i \in DOMAIN medicines :
                  \A j \in DOMAIN CardRows(medicines[i]) :
                     LET time == medicines[i].times[j]
                         id == NotificationId(medicines[i], time)
                     IN  ( /\ Abs(CurrentMinutes(now) - MedicineMinutes(time)) <= NotifyWindow
                           /\ id \notin dismissedNotifications )
                         => id \in DueIds)

\* the medicine the engine had alarmed for was deleted, the effect has run
\* again and nothing is on show
C24_Witness ==
    /\ AlertMounted
    /\ ~effectPending
    /\ medicines = << >>
    /\ hasPlayedSound # {}
    /\ dueNotifications = << >>

\* ------------------------------------------------------------------ C26
\* the log holds an entry for this medicine and time dated today
LoggedToday(id, time) ==
    \E i \in DOMAIN medicineLog :
        /\ medicineLog[i].medicineId = id
        /\ medicineLog[i].time = time
        /\ medicineLog[i].date = DateOf(now)

\* C26: a time row of a mounted card is classified Taken if and only if the
\* log holds an entry for that medicine and time dated today.
C26_TakenIffLogged ==
    \A row \in MountedRows :
        IsTaken(takenTimes[row[1]], row[2]) <=> LoggedToday(row[1], row[2])

\* ------------------------------------------------------------------ C27
\* the smallest minute of day among these times
EarliestMinute(times) ==
    CHOOSE m \in { MedicineMinutes(time) : time \in times } :
        \A time \in times : m <= MedicineMinutes(time)

\* C27: the next dose of a card whose medicine is not as-needed is the slot
\* with the smallest minute of day after now, or the earliest slot of the day
\* when none is after now, in whatever order the times are listed; an
\* as-needed card has none.
C27_NextDoseIsEarliest ==
    \A i \in DOMAIN medicines :
        LET medicine == medicines[i]
            later == { time \in Range(medicine.times) :
                         MedicineMinutes(time) > CurrentMinutes(now) }
        IN  IF medicine.frequency = "as-needed"
            THEN GetNextDose(medicine, now) = << >>
            ELSE MedicineMinutes(GetNextDose(medicine, now)) =
                    IF later # {} THEN EarliestMinute(later)
                    ELSE EarliestMinute(Range(medicine.times))

\* ------------------------------------------------------------------ C28
\* C28: the evaluation that follows an evaluation calls no alarm, whatever the
\* first one did; the re-evaluation an alarm triggers calls no alarm, changes
\* neither the dismissed nor the played list and schedules nothing further;
\* and an evaluation is scheduled only by an alarm or by a change of the
\* dismissed list.
C28_ReevaluationChainEnds ==
    /\ [](LET due == EffectRunDue
              first == ShouldPlayAlarm(soundEnabled, due, hasPlayedSound)
              played == IF first
                        THEN AddPlayed(hasPlayedSound, NotificationIds(due))
                        ELSE hasPlayedSound
          IN  ~ShouldPlayAlarm(soundEnabled, due, played))
    /\ [][ (effectPending /\ alarmCalls = << "auto" >>) =>
             /\ alarmCalls' = << >>
             /\ ~effectPending'
             /\ dismissedNotifications' = dismissedNotifications
             /\ hasPlayedSound' = hasPlayedSound ]_vars
    /\ [][ effectPending' =>
             \/ effectPending
             \/ alarmCalls' = << "auto" >>
             \/ dismissedNotifications' # dismissedNotifications ]_vars

\* the alarm was called once for the 08:00 slot, the re-evaluation has run
\* and the engine is at rest with its timer set
C28_Witness ==
    /\ Evaluated
    /\ DueIds = { << 1, <<8, 0>> >> }
    /\ hasPlayedSound = DueIds
    /\ alarmCalls = << >>
    /\ intervals = 1
    /\ dismissedNotifications = {}

====
